---- MODULE Spec2Model ----
(***************************************************************************)
(* Pool activations of finn-hlslib (pool.hpp): MaxPoolFunction,            *)
(* AvgPoolFunction, AccPoolFunction and QuantAvgPoolFunction, used through *)
(* the lifecycle  accu = init(); accu = pool(e, accu) ...; activate(accu). *)
(*                                                                         *)
(* A value of the arbitrary-precision type T (ap_int<w> / ap_uint<w>) is a *)
(* bit vector: a function 1..w -> {0,1}, index 1 being the least           *)
(* significant bit.  The C++ int of the literal in MaxPoolFunction::init   *)
(* is a bit vector of IntWidth bits.  The output type TO is taken to be    *)
(* the accumulator type TA.                                                *)
(***************************************************************************)
EXTENDS Integers, Sequences, FiniteSets

VARIABLES
  strat,    \* the strategy instantiated
  sgn,      \* whether T is signed
  w,        \* T::width
  size,     \* the template parameter size
  win,      \* the elements the windowing engine presents
  rem,      \* the indices of win not yet presented
  pc,       \* per unit: "start", "pool", "done" or "trap"
  accu,     \* per unit: the caller's accumulator
  folded,   \* per unit: the elements it has pooled, in order
  result,   \* per unit: the value activate returned
  merged    \* pool of the two units' accumulators

\* ------------------------------------------------------------------ bounds

\* narrow widths 1..MaxWidth are enumerated exhaustively
MaxWidth == 2
\* a window holds 1..MaxLen elements; size ranges over 0..MaxLen
MaxLen == 2

\* width of the C++ int that holds the literal 1 in 1<<(T::width-1)
IntWidth == 32

\* ------------------------------------------------------------- bit vectors

Bit == {0, 1}

BV(n) == [1..n -> Bit]

\* a bit vector given bit by bit, as a tuple
Vec(f) == SubSeq(f, 1, Len(f))

Zero(n) == Vec([i \in 1..n |-> 0])

One(n) == Vec([i \in 1..n |-> IF i = 1 THEN 1 ELSE 0])

AllOnes(n) == Vec([i \in 1..n |-> 1])

MsbOnly(n) == Vec([i \in 1..n |-> IF i = n THEN 1 ELSE 0])

\* conversion of a value to a type of n bits: truncation, or extension by the
\* sign bit when the source type is signed (s) and by zero otherwise
Resize(b, n, s) ==
  Vec([i \in 1..n |-> IF i <= Len(b) THEN b[i] ELSE IF s THEN b[Len(b)] ELSE 0])

\* values are added and divided limb by limb, LimbBits bits at a time
LimbBits == IntWidth \div 2

RECURSIVE Pow2(_)
Pow2(n) == IF n = 0 THEN 1 ELSE 2 * Pow2(n - 1)

\* the number the bits lo..hi of m stand for
RECURSIVE BitsVal(_, _, _)
BitsVal(m, lo, hi) ==
  IF hi < lo THEN 0 ELSE m[lo] + 2 * BitsVal(m, lo + 1, hi)

\* the n low bits of the number v
RECURSIVE NumBits(_, _)
NumBits(v, n) ==
  IF n = 0 THEN << >> ELSE << v % 2 >> \o NumBits(v \div 2, n - 1)

\* the last bit of the limb that starts after bit lo of m
LimbEnd(m, lo) == IF lo + LimbBits < Len(m) THEN lo + LimbBits ELSE Len(m)

\* the bits above lo of a + b + c, c the carry into bit lo + 1
RECURSIVE AddLimbs(_, _, _, _)
AddLimbs(a, b, c, lo) ==
  IF lo >= Len(a) THEN << >>
  ELSE LET hi == LimbEnd(a, lo)
           t  == BitsVal(a, lo + 1, hi) + BitsVal(b, lo + 1, hi) + c
       IN  NumBits(t, hi - lo) \o AddLimbs(a, b, t \div Pow2(hi - lo), hi)

\* a + b + c within the width of a and b
AddBits(a, b, c) == AddLimbs(a, b, c, 0)

\* operator+ of two values of one type of w bits: the exact sum, w+1 bits
AddFull(a, b, s) ==
  AddBits(Resize(a, Len(a) + 1, s), Resize(b, Len(b) + 1, s), 0)

\* two's complement negation within the width of b
Negate(b) ==
  AddBits(Vec([i \in 1..Len(b) |-> 1 - b[i]]), Zero(Len(b)), 1)

\* unsigned comparison
ULess(a, b) ==
  \E i \in 1..Len(a) : a[i] < b[i] /\ \A k \in (i + 1)..Len(a) : a[k] = b[k]

\* operator< of two values of one type
Less(a, b, s) ==
  IF s /\ a[Len(a)] # b[Len(b)] THEN a[Len(a)] = 1 ELSE ULess(a, b)

\* operator>> by k bits: arithmetic for a signed type, logical otherwise;
\* a shift by the width or more leaves only sign bits (or zeros)
Shr(b, k, s) ==
  Vec([i \in 1..Len(b) |-> IF i + k <= Len(b) THEN b[i + k]
                           ELSE IF s THEN b[Len(b)] ELSE 0])

\* what a build can deliver for b >> k: a shift by less than the width is the
\* shift above; shifting every bit out is left open by the type, which
\* delivers the sign bits in a circuit and may deliver 0 in simulation
ShrOutcomes(b, k, s) ==
  IF k < Len(b) THEN {Shr(b, k, s)} ELSE {Shr(b, k, s), Zero(Len(b))}

\* the remainder by d of the bits above lo of the unsigned m
RECURSIVE LimbRem(_, _, _)
LimbRem(m, d, lo) ==
  IF lo >= Len(m) THEN 0
  ELSE LET hi == LimbEnd(m, lo)
       IN  (LimbRem(m, d, hi) * Pow2(hi - lo) + BitsVal(m, lo + 1, hi)) % d

\* the bits above lo of the quotient of the unsigned m by d >= 1
RECURSIVE DivLimbs(_, _, _)
DivLimbs(m, d, lo) ==
  IF lo >= Len(m) THEN << >>
  ELSE LET hi == LimbEnd(m, lo)
           t  == LimbRem(m, d, hi) * Pow2(hi - lo) + BitsVal(m, lo + 1, hi)
       IN  NumBits(t \div d, hi - lo) \o DivLimbs(m, d, hi)

\* the quotient of the unsigned m by d >= 1
UDiv(m, d) == DivLimbs(m, d, 0)

\* operator/ of a value by an unsigned d >= 1: the quotient of the magnitudes
\* with the sign of the dividend
Div(b, d, s) ==
  LET neg == s /\ b[Len(b)] = 1
      mag == IF neg THEN Negate(b) ELSE b
      q   == UDiv(mag, d)
  IN  IF neg THEN Negate(q) ELSE q

\* ---------------------------------------------------- external capabilities

\* comp::max<T,T,T>()(a, b) of activations.hpp: the larger of the two
CompMax(a, b, s) == IF Less(b, a, s) THEN a ELSE b

\* comp::add<TA,TA,TA>()(a, b) of activations.hpp: the sum, returned as TA
CompAdd(a, b, s) == Resize(AddFull(a, b, s), Len(a), s)

\* ------------------------------------------------------------ the strategies

Strategies == {"Max", "Avg", "Acc", "QuantAvg"}

\* PoolFunction::init: TA(0)
PoolFunctionInit(n) == Resize(Zero(IntWidth), n, TRUE)

\* T(-1) < 0: whether T is a signed type
IsSignedType(n, s) == Less(Resize(AllOnes(IntWidth), n, TRUE), Zero(n), s)

\* the int 1 << k.  For k < IntWidth the bit k is set (k = IntWidth-1 gives
\* INT_MIN); a shift by IntWidth or more is undefined: the shifter masks the
\* count, or the compiler folds the constant to 0
Shl1Outcomes(k) ==
  IF k < IntWidth
    THEN {Vec([i \in 1..IntWidth |-> IF i = k + 1 THEN 1 ELSE 0])}
    ELSE {Vec([i \in 1..IntWidth |-> IF i = (k % IntWidth) + 1 THEN 1 ELSE 0]),
          Zero(IntWidth)}

\* MaxPoolFunction::init: T_MIN_VAL = (T(-1)<0) ? 1<<(T::width-1) : 0
MaxPoolInit(n, s) ==
  IF IsSignedType(n, s)
    THEN {Resize(v, n, TRUE) : v \in Shl1Outcomes(n - 1)}
    ELSE {Resize(Zero(IntWidth), n, TRUE)}

\* MaxPoolFunction::pool dropping the accumulator
MaxPoolLast(input, acc, s) == input

\* MaxPoolFunction::pool
MaxPool(input, acc, s) == CompMax(input, acc, s)

\* MaxPoolFunction::activate
MaxActivate(acc) == acc

\* AvgPoolFunction::pool
AvgPool(input, acc, s) == CompAdd(input, acc, s)

\* AvgPoolFunction::activate dividing the bit pattern as an unsigned number
AvgActivateUnsigned(acc, sz, s) == Resize(UDiv(acc, sz), Len(acc), s)

\* AvgPoolFunction::activate, size >= 1: TO(accu / size)
AvgActivate(acc, sz, s) == Resize(Div(acc, sz, s), Len(acc), s)

\* AccPoolFunction::pool
AccPool(input, acc, s) == CompAdd(input, acc, s)

\* AccPoolFunction::activate scaling the sum
AccActivateHalved(acc) == Shr(acc, 1, FALSE)

\* AccPoolFunction::activate
AccActivate(acc) == acc

\* QuantAvgPoolFunction::pool dropping the accumulator
QuantAvgPoolLast(input, acc, s) == input

\* QuantAvgPoolFunction::pool: input + accu, returned as TA
QuantAvgPool(input, acc, s) == Resize(AddFull(input, acc, s), Len(acc), s)

\* QuantAvgPoolFunction::activate with a logical shift of a signed value
QuantAvgActivateLogical(acc, sz, s) ==
  {Resize(v, Len(acc), s) : v \in ShrOutcomes(acc, sz, FALSE)}

\* QuantAvgPoolFunction::activate: TO(accu >> size), the values it can return
QuantAvgActivate(acc, sz, s) ==
  {Resize(v, Len(acc), s) : v \in ShrOutcomes(acc, sz, s)}

\* the values init() of a strategy can return
InitOutcomes(st, n, s) ==
  IF st = "Max" THEN MaxPoolInit(n, s) ELSE {PoolFunctionInit(n)}

\* pool of a strategy object that keeps the accumulator it returned last to
\* the first unit and pools into that one
PoolStateful(st, input, acc, s) ==
  LET kept == IF accu[1] # << >> THEN accu[1] ELSE acc
  IN  CASE st = "Max"      -> MaxPool(input, kept, s)
        [] st = "Avg"      -> AvgPool(input, kept, s)
        [] st = "Acc"      -> AccPool(input, kept, s)
        [] st = "QuantAvg" -> QuantAvgPool(input, kept, s)

\* pool of a strategy
Pool(st, input, acc, s) ==
  CASE st = "Max"      -> MaxPool(input, acc, s)
    [] st = "Avg"      -> AvgPool(input, acc, s)
    [] st = "Acc"      -> AccPool(input, acc, s)
    [] st = "QuantAvg" -> QuantAvgPool(input, acc, s)

\* the values activate of a strategy can return, size not a zero divisor
Activate(st, acc, sz, s) ==
  CASE st = "Max"      -> {MaxActivate(acc)}
    [] st = "Avg"      -> {AvgActivate(acc, sz, s)}
    [] st = "Acc"      -> {AccActivate(acc)}
    [] st = "QuantAvg" -> QuantAvgActivate(acc, sz, s)

\* accu / size with size = 0 is undefined: the simulation traps, a divider
\* circuit delivers some quotient
DivByZero(st, sz) == st = "Avg" /\ sz = 0

DivZeroOutcomes(n) == {Zero(n), AllOnes(n)}

\* ------------------------------------------------------------------ state

\* the widths of T: the narrow ones, and the two around the width of int
Widths == (1..MaxWidth) \cup {IntWidth, IntWidth + 1}

\* the values of T presented to pool: all of a narrow type, the corner
\* values of a wide one
Values(n) ==
  IF n <= MaxWidth THEN BV(n) ELSE {One(n), AllOnes(n), MsbOnly(n)}

\* two execution units (two windows, or two parts of one window)
Units == {1, 2}

None == << >>

vars == << strat, sgn, w, size, win, rem, pc, accu, folded, result, merged >>

config == << strat, sgn, w, size, win >>

Init ==
  /\ strat \in Strategies
  /\ sgn \in BOOLEAN
  /\ w \in Widths
  /\ size \in 0..MaxLen
  /\ win \in UNION {[1..n -> Values(w)] : n \in 1..MaxLen}
  /\ rem = DOMAIN win
  /\ pc = [u \in Units |-> "start"]
  /\ accu = [u \in Units |-> None]
  /\ folded = [u \in Units |-> << >>]
  /\ result = [u \in Units |-> None]
  /\ merged = None

\* accu = init()
InitStep(u) ==
  /\ pc[u] = "start"
  /\ \E v \in InitOutcomes(strat, w, sgn) :
       accu' = [accu EXCEPT ![u] = v]
  /\ pc' = [pc EXCEPT ![u] = "pool"]
  /\ UNCHANGED << config, rem, folded, result, merged >>

\* accu = pool(e, accu) for an element e not yet presented
PoolStep(u) ==
  /\ pc[u] = "pool"
  /\ \E k \in rem :
       /\ accu' = [accu EXCEPT ![u] = Pool(strat, win[k], accu[u], sgn)]
       /\ folded' = [folded EXCEPT ![u] = Append(folded[u], win[k])]
       /\ rem' = rem \ {k}
  /\ UNCHANGED << config, pc, result, merged >>

\* result = activate(accu)
ActivateStep(u) ==
  /\ pc[u] = "pool"
  /\ ~DivByZero(strat, size)
  /\ \E v \in Activate(strat, accu[u], size, sgn) :
       result' = [result EXCEPT ![u] = v]
  /\ pc' = [pc EXCEPT ![u] = "done"]
  /\ UNCHANGED << config, rem, accu, folded, merged >>

\* result = activate(accu) dividing by zero: a trap
ActivateTrap(u) ==
  /\ pc[u] = "pool"
  /\ DivByZero(strat, size)
  /\ pc' = [pc EXCEPT ![u] = "trap"]
  /\ UNCHANGED << config, rem, accu, folded, result, merged >>

\* result = activate(accu) dividing by zero: some quotient
ActivateDivZero(u) ==
  /\ pc[u] = "pool"
  /\ DivByZero(strat, size)
  /\ \E v \in DivZeroOutcomes(w) : result' = [result EXCEPT ![u] = v]
  /\ pc' = [pc EXCEPT ![u] = "done"]
  /\ UNCHANGED << config, rem, accu, folded, merged >>

\* the partial accumulators of the two units merged by the same pool
Merge ==
  /\ merged = None
  /\ rem = {}
  /\ \A u \in Units : pc[u] # "start"
  /\ merged' = Pool(strat, accu[1], accu[2], sgn)
  /\ UNCHANGED << config, rem, pc, accu, folded, result >>

Next ==
  \/ \E u \in Units : InitStep(u)
  \/ \E u \in Units : PoolStep(u)
  \/ \E u \in Units : ActivateStep(u)
  \/ \E u \in Units : ActivateTrap(u)
  \/ \E u \in Units : ActivateDivZero(u)
  \/ Merge

Spec == Init /\ [][Next]_vars

\* ------------------------------------------------- reading the accumulators

Inited(u) == pc[u] # "start"

\* ints are exact for the narrow widths
Narrow == w <= MaxWidth

\* the number a bit vector of a signed (s) or unsigned type stands for
RECURSIVE ValFrom(_, _, _)
ValFrom(b, i, v) == IF i = 0 THEN v ELSE ValFrom(b, i - 1, 2 * v + b[i])

ToInt(b, s) == ValFrom(b, Len(b) - 1, IF s THEN 0 - b[Len(b)] ELSE b[Len(b)])

RECURSIVE SumInt(_)
SumInt(seq) == IF seq = << >> THEN 0 ELSE ToInt(Head(seq), sgn) + SumInt(Tail(seq))

\* the exact sum of the elements is a value of TA
SumFits(seq) ==
  IF sgn THEN 0 - Pow2(w - 1) <= SumInt(seq) /\ SumInt(seq) < Pow2(w - 1)
         ELSE SumInt(seq) < Pow2(w)

\* a / d rounded toward zero, d >= 1
TruncDiv(a, d) ==
  LET q == a \div d IN IF a < 0 /\ q * d # a THEN q + 1 ELSE q

\* v is the largest of the elements of seq
IsMaxOf(v, seq) ==
  /\ \E i \in DOMAIN seq : seq[i] = v
  /\ \A i \in DOMAIN seq : ~Less(v, seq[i], sgn)

\* the smallest value of T
MinValue == IF sgn THEN MsbOnly(w) ELSE Zero(w)

\* one window folded alone, in the order of seq, from the accumulator a0
RECURSIVE SeqFold(_, _, _)
SeqFold(st, a0, seq) ==
  IF seq = << >> THEN a0
  ELSE SeqFold(st, Pool(st, Head(seq), a0, sgn), Tail(seq))

\* the orders in which the elements of seq can be presented
Perms(seq) ==
  LET n == Len(seq)
  IN  {[i \in 1..n |-> seq[f[i]]] :
         f \in {g \in [1..n -> 1..n] : \A i, j \in 1..n : g[i] = g[j] => i = j}}

\* ------------------------------------------------------------------ claims

\* C1: Max strategy: after each pool step the accumulator is the maximum of
\* the elements folded so far, and activate returns the maximum of the window.
C1_MaxLifecycle ==
  strat = "Max" =>
    \A u \in Units :
      /\ Inited(u) /\ folded[u] # << >> => IsMaxOf(accu[u], folded[u])
      /\ pc[u] = "done" /\ folded[u] # << >> => IsMaxOf(result[u], folded[u])

\* C2: MaxPoolFunction::init() returns the minimum value of T for every
\* width: no value of T is below it.
C2_InitIsMinimum ==
  strat = "Max" =>
    \A u \in Units :
      Inited(u) /\ folded[u] = << >> =>
        /\ accu[u] = MinValue
        /\ \A x \in Values(w) : ~Less(x, accu[u], sgn)

\* C3: Average strategy, size >= 1: activate(accu) is accu / size rounded
\* toward zero; a window of exactly size elements whose sum fits in TA yields
\* sum / size rounded toward zero.
C3_AvgTruncates ==
  strat = "Avg" /\ size >= 1 /\ Narrow =>
    \A u \in Units :
      pc[u] = "done" =>
        /\ ToInt(result[u], sgn) = TruncDiv(ToInt(accu[u], sgn), size)
        /\ Len(folded[u]) = size /\ SumFits(folded[u]) =>
             ToInt(result[u], sgn) = TruncDiv(SumInt(folded[u]), size)

C3_Witness ==
  /\ strat = "Avg" /\ size = 2 /\ Narrow /\ sgn
  /\ \E u \in Units :
       /\ pc[u] = "done" /\ Len(folded[u]) = 2 /\ SumFits(folded[u])
       /\ SumInt(folded[u]) = 0 - 1
       /\ ToInt(result[u], sgn) = 0

\* the window of a unit of the quantized-average strategy holds exactly
\* 2^size elements whose sum fits in TA, and the unit has activated
QuantWindow(u) ==
  /\ strat = "QuantAvg" /\ Narrow
  /\ pc[u] = "done"
  /\ Len(folded[u]) = Pow2(size)
  /\ SumFits(folded[u])

\* what the Average strategy with divisor 2^size yields on the window of u
AvgOnWindow(u) ==
  AvgActivate(SeqFold("Avg", PoolFunctionInit(w), folded[u]), Pow2(size), sgn)

\* C4 (as claimed): the quantized average of a window of 2^size elements
\* equals the result of the Average strategy with divisor 2^size.
C4_QuantAvgEqualsAverage ==
  \A u \in Units : QuantWindow(u) => result[u] = AvgOnWindow(u)

\* C4 (amended): the quantized average equals the Average strategy's result
\* when the sum is non-negative or a multiple of 2^size; for a shift amount
\* below the width of TA it is the sum divided by 2^size rounded toward minus
\* infinity, one below the Average strategy's result for every other sum.
C4_QuantAvgFloors ==
  \A u \in Units :
    QuantWindow(u) =>
      /\ SumInt(folded[u]) >= 0 \/ SumInt(folded[u]) % Pow2(size) = 0 =>
           result[u] = AvgOnWindow(u)
      /\ size < w =>
           /\ ToInt(result[u], sgn) = SumInt(folded[u]) \div Pow2(size)
           /\ SumInt(folded[u]) < 0 /\ SumInt(folded[u]) % Pow2(size) # 0 =>
                ToInt(result[u], sgn) = ToInt(AvgOnWindow(u), sgn) - 1

C4_Witness ==
  \E u \in Units :
    /\ QuantWindow(u) /\ size = 1 /\ size < w
    /\ SumInt(folded[u]) = 0 - 1
    /\ ToInt(result[u], sgn) = 0 - 1
    /\ ToInt(AvgOnWindow(u), sgn) = 0

\* C5: order independence: the accumulator a unit holds is the one every
\* order of presenting its elements yields, wraparound included.
C5_OrderIndependence ==
  \A u \in Units :
    Inited(u) =>
      \E a0 \in InitOutcomes(strat, w, sgn) :
        \A p \in Perms(folded[u]) : accu[u] = SeqFold(strat, a0, p)

C5_Witness ==
  /\ strat \in {"Avg", "Acc", "QuantAvg"} /\ Narrow
  /\ \E u \in Units :
       /\ Len(folded[u]) = 2 /\ folded[u][1] # folded[u][2]
       /\ ~SumFits(folded[u])
       /\ accu[u] = SeqFold(strat, PoolFunctionInit(w), << folded[u][2], folded[u][1] >>)

\* C6: identity law: pool(x, init()) = x for every strategy, and
\* pool(init(), x) = x for the sum-based strategies.
C6_IdentityLaw ==
  /\ \A u \in Units : Inited(u) /\ Len(folded[u]) = 1 => accu[u] = folded[u][1]
  /\ strat # "Max" /\ merged # None =>
       /\ folded[1] = << >> /\ Len(folded[2]) = 1 => merged = folded[2][1]
       /\ folded[2] = << >> /\ Len(folded[1]) = 1 => merged = folded[1][1]

\* C7: partitioned folding: the accumulators of the parts, merged by pool, are
\* the accumulator of the whole window folded sequentially.
C7_PartitionedFold ==
  merged # None =>
    \E a0 \in InitOutcomes(strat, w, sgn) : merged = SeqFold(strat, a0, win)

C7_Witness ==
  /\ merged # None
  /\ \A u \in Units : folded[u] # << >>
  /\ accu[1] # accu[2]
  /\ merged # accu[1]

\* C8: no operation can fail, whatever the value of size: activate always
\* returns a defined value and never traps.
C8_NoFault ==
  \A u \in Units : pc[u] \in {"done", "trap"} => ~DivByZero(strat, size)

\* a window's accumulator and result are those of the window folded alone
FoldedAlone(u) ==
  /\ Inited(u) =>
       \E a0 \in InitOutcomes(strat, w, sgn) : accu[u] = SeqFold(strat, a0, folded[u])
  /\ pc[u] = "done" /\ ~DivByZero(strat, size) =>
       result[u] \in Activate(strat, accu[u], size, sgn)

\* a step of unit u leaves the other unit as it is
LeavesOthers(u) ==
  \A v \in Units \ {u} :
    /\ accu'[v] = accu[v]
    /\ folded'[v] = folded[v]
    /\ result'[v] = result[v]
    /\ pc'[v] = pc[v]

\* C9: non-interference: with the steps of two windows interleaved in any
\* order, each window's accumulator and result are those of the window folded
\* alone, and a step on one window leaves the other window unchanged.
C9_NonInterference ==
  /\ [](\A u \in Units : FoldedAlone(u))
  /\ [][\A u \in Units :
          InitStep(u) \/ PoolStep(u) \/ ActivateStep(u) => LeavesOthers(u)]_vars

C9_Witness ==
  /\ pc[1] = "done" /\ pc[2] = "pool"
  /\ folded[1] # << >> /\ folded[2] # << >>
  /\ accu[1] # accu[2]
  /\ rem = {}

\* C10: Accumulate strategy: the result is the sum of the window's elements
\* under the wraparound addition of TA, unscaled, whatever size is.
C10_AccumulateSum ==
  strat = "Acc" /\ Narrow =>
    \A u \in Units :
      pc[u] = "done" =>
        /\ result[u] = accu[u]
        /\ ToInt(result[u], FALSE) = SumInt(folded[u]) % Pow2(w)

C10_Witness ==
  /\ strat = "Acc" /\ Narrow /\ size = 0
  /\ \E u \in Units :
       /\ pc[u] = "done" /\ Len(folded[u]) = 2
       /\ ~SumFits(folded[u])

====
